---- MODULE Spec2Model ----
(***************************************************************************)
(* Model of the macro-test crate.                                          *)
(*                                                                         *)
(*  - src/src/lib.rs: the macro assert_attribute_implementation_as_expected*)
(*    (one run of the macro is one behaviour of Spec);                     *)
(*  - src/attributes/src/lib.rs: implement / signature_as_expected, and    *)
(*    the code implement emits (one expansion plus calls of the emitted    *)
(*    functions is one behaviour of SpecImpl).                             *)
(*                                                                         *)
(* A token stream is a sequence of tokens, a token a TLA+ string, and the  *)
(* string of a token stream a sequence of characters (one-character        *)
(* strings), so that whitespace removal acts on characters.                *)
(***************************************************************************)
EXTENDS Integers, Sequences, FiniteSets, TLC

\* ---------------------------------------------------------------- bounds
MaxAttrs == 2

MaxParams == 3

\* ------------------------------------------------------- tokens and text
\* The characters a token is written with.
Chars(t) ==
    CASE t = "struct" -> <<"s", "t", "r", "u", "c", "t">>
      [] t = "str"    -> <<"s", "t", "r">>
      [] t = "uct"    -> <<"u", "c", "t">>
      [] t = "const"  -> <<"c", "o", "n", "s", "t">>
      [] t = "con"    -> <<"c", "o", "n">>
      [] t = "st"     -> <<"s", "t">>
      [] t = "fn"     -> <<"f", "n">>
      [] t = "::"     -> <<":", ":">>
      [] t = "LitTab" -> <<"\"", "\t", "\"">>
      [] t = "LitE"   -> <<"\"", "\"">>
      [] OTHER        -> <<t>>

\* char::is_whitespace, restricted to the characters of the model.
is_whitespace(c) == c \in {" ", "\t", "\n"}

\* TokenStream::to_string: the tokens, separated by one space.
RECURSIVE to_string(_)
to_string(ts) ==
    IF ts = <<>> THEN <<>>
    ELSE IF Len(ts) = 1 THEN Chars(ts[1])
    ELSE Chars(ts[1]) \o <<" ">> \o to_string(Tail(ts))

\* s.replace(' ', ""): drops the separating spaces only.
RECURSIVE remove_spaces_only(_)
remove_spaces_only(s) ==
    IF s = <<>> THEN <<>>
    ELSE IF s[1] = " " THEN remove_spaces_only(Tail(s))
    ELSE <<s[1]>> \o remove_spaces_only(Tail(s))

\* s.chars().filter(|c| !c.is_whitespace()).collect::<String>()
RECURSIVE remove_whitespace(_)
remove_whitespace(s) ==
    IF s = <<>> THEN <<>>
    ELSE IF is_whitespace(s[1]) THEN remove_whitespace(Tail(s))
    ELSE <<s[1]>> \o remove_whitespace(Tail(s))

\* ------------------------------------------------------------ attributes
\* syn::Attribute: a path (its segments) and the tokens after the path.
\* A parsed path has at least one segment, so the expect() of path_to_name
\* and the unwrap_or(false) of the signature check are never taken.
Idents == {"a", "m"}

AttrPaths == {<<"a">>, <<"m", "a">>, <<"a", "m">>}

AttrTokens ==
    { <<>>,                              \* #[name]
      <<"(", "x", ",", "y", ")">>,       \* #[name(x, y)]
      <<"(", "y", ",", ")">>,            \* #[name(y,)]
      <<"=", "1">>,                      \* #[name = 1]
      <<"(", "+", ")">> }                \* #[name(+)]: not a meta

Attributes == [path : AttrPaths, tokens : AttrTokens]

NoAttribute == [path |-> <<>>, tokens |-> <<>>]

\* The names and literals a NestedMeta can consist of in the model.
NestedTokens == {"x", "y", "1"}

\* |p| p.segments.first(): the leading segment instead of the last.
path_to_first_name(p) == p[1]

\* |p: &syn::Path| p.segments.last().map(|seg| seg.ident.to_string())
path_to_name(p) == p[Len(p)]

attribute_has_ident(a, i) == path_to_name(a.path) = i

\* ------------------------------------------------------------------ items
\* The Item variants whose attrs the macro reaches.
AttrKinds ==
    {"Const", "Enum", "ExternCrate", "Fn", "ForeignMod", "Impl", "Macro",
     "Macro2", "Mod", "Static", "Struct", "Trait", "TraitAlias", "Type",
     "Union", "Use"}

\* The declarations of the model:
\*   struct S {}          struct S<> {}        const C: T = "<tab>";
\*   fn f();  (an item syn keeps as Item::Verbatim, attributes included
\*             in its tokens; attrs is what the declaration was written with)
ItemShapes ==
    { [kind |-> "Struct",   generics |-> "none"],
      [kind |-> "Struct",   generics |-> "empty"],
      [kind |-> "Const",    generics |-> "none"],
      [kind |-> "Verbatim", generics |-> "none"] }

RECURSIVE SeqsUpTo(_, _)
SeqsUpTo(S, n) ==
    IF n = 0 THEN {<<>>}
    ELSE LET shorter == SeqsUpTo(S, n - 1)
         IN  shorter \cup {Append(s, e) : s \in shorter, e \in S}

Items ==
    { [kind |-> sh.kind, generics |-> sh.generics, attrs |-> as] :
        sh \in ItemShapes, as \in SeqsUpTo(Attributes, MaxAttrs) }

RECURSIVE PathTokens(_)
PathTokens(p) ==
    IF Len(p) = 1 THEN <<p[1]>>
    ELSE <<p[1], "::">> \o PathTokens(Tail(p))

AttrToTokens(a) == <<"#", "[">> \o PathTokens(a.path) \o a.tokens \o <<"]">>

RECURSIVE AttrsToTokens(_)
AttrsToTokens(as) ==
    IF as = <<>> THEN <<>>
    ELSE AttrToTokens(as[1]) \o AttrsToTokens(Tail(as))

\* The tokens the declaration is written with.
SourceTokens(it) ==
    AttrsToTokens(it.attrs) \o
    CASE it.kind = "Struct" ->
           <<"struct", "S">> \o
           (IF it.generics = "empty" THEN <<"<", ">">> ELSE <<>>) \o
           <<"{", "}">>
      [] it.kind = "Const" -> <<"const", "C", ":", "T", "=", "LitTab", ";">>
      [] OTHER -> <<"fn", "f", "(", ")", ";">>

\* quote!{ #item }: syn's ToTokens of the parsed item. Generics without
\* parameters are not printed.
ItemToTokens(it) ==
    AttrsToTokens(it.attrs) \o
    CASE it.kind = "Struct" -> <<"struct", "S", "{", "}">>
      [] it.kind = "Const" -> <<"const", "C", ":", "T", "=", "LitTab", ";">>
      [] OTHER -> <<"fn", "f", "(", ")", ";">>

\* The declaration without its i-th attribute (i = 0: as it is).
Without(it, i) ==
    IF i = 0 THEN it
    ELSE [it EXCEPT !.attrs =
            SubSeq(it.attrs, 1, i - 1) \o SubSeq(it.attrs, i + 1, Len(it.attrs))]

\* The same characters in other tokens: the keyword written as two tokens.
RECURSIVE SplitKeyword(_)
SplitKeyword(ts) ==
    IF ts = <<>> THEN <<>>
    ELSE (CASE ts[1] = "struct" -> <<"str", "uct">>
            [] ts[1] = "const"  -> <<"con", "st">>
            [] OTHER            -> <<ts[1]>>) \o SplitKeyword(Tail(ts))

\* The string literal without the whitespace inside it.
RECURSIVE EmptyLiteral(_)
EmptyLiteral(ts) ==
    IF ts = <<>> THEN <<>>
    ELSE <<IF ts[1] = "LitTab" THEN "LitE" ELSE ts[1]>> \o EmptyLiteral(Tail(ts))

\* The token streams given as `expected`: the declaration as written, with
\* or without one of its attributes, and rewritings of those.
Expecteds(it) ==
    LET n == Len(it.attrs)
    IN  {SourceTokens(Without(it, i)) : i \in 0..n}
        \cup {SplitKeyword(SourceTokens(Without(it, i))) : i \in 1..n}
        \cup {EmptyLiteral(SourceTokens(Without(it, i))) : i \in 1..n}
        \cup {ItemToTokens(Without(it, i)) : i \in 1..n}

\* ------------------------------------------------------ rewrite functions
\* The functions `$attr` can resolve to: the identity of tests::bar, and one
\* that appends its arguments to the item.
Fns == {"identity", "with_args"}

Apply(f, args, ts) ==
    IF f = "identity" THEN ts ELSE ts \o args

\* --------------------------------------------------------------- parse_meta
\* Punctuated::<NestedMeta, Token![,]>::parse_terminated over the tokens
\* between the parentheses.
RECURSIVE ParseNested(_)
ParseNested(ts) ==
    IF ts = <<>> THEN [ok |-> TRUE, nested |-> <<>>]
    ELSE IF ts[1] \notin NestedTokens THEN [ok |-> FALSE, nested |-> <<>>]
    ELSE IF Len(ts) = 1 THEN [ok |-> TRUE, nested |-> <<ts[1]>>]
    ELSE IF ts[2] # "," THEN [ok |-> FALSE, nested |-> <<>>]
    ELSE LET rest == ParseNested(SubSeq(ts, 3, Len(ts)))
         IN  [ok |-> rest.ok, nested |-> <<ts[1]>> \o rest.nested]

\* Attribute::parse_meta
parse_meta(a) ==
    LET ts == a.tokens
        n  == Len(ts)
    IN  IF n = 0 THEN [tag |-> "Path", nested |-> <<>>]
        ELSE IF ts[1] = "=" /\ n = 2 /\ ts[2] \in NestedTokens
             THEN [tag |-> "NameValue", nested |-> <<>>]
        ELSE IF ts[1] = "(" /\ ts[n] = ")" /\ ParseNested(SubSeq(ts, 2, n - 1)).ok
             THEN [tag |-> "List", nested |-> ParseNested(SubSeq(ts, 2, n - 1)).nested]
        ELSE [tag |-> "Err", nested |-> <<>>]

RECURSIVE Reverse(_)
Reverse(s) == IF s = <<>> THEN <<>> ELSE Append(Reverse(Tail(s)), s[1])

\* list.nested.into_iter().rev().collect()
to_attribute_args_reversed(meta) ==
    IF meta.tag = "List" THEN Reverse(meta.nested) ELSE <<>>

\* match meta { Meta::List(list) => list.nested.into_iter().collect(), _ => vec![] }
to_attribute_args(meta) ==
    IF meta.tag = "List" THEN meta.nested ELSE <<>>

\* ------------------------------------------------- extracting the attribute
\* position(..).unwrap_or(0): falls back to the first attribute.
find_or_first(attributes, i) ==
    IF \E k \in 1..Len(attributes) : attribute_has_ident(attributes[k], i)
    THEN CHOOSE k \in 1..Len(attributes) :
            /\ attribute_has_ident(attributes[k], i)
            /\ \A j \in 1..(k - 1) : ~attribute_has_ident(attributes[j], i)
    ELSE IF attributes = <<>> THEN 0 ELSE 1

\* .rev().find(..): the last matching attribute.
find_last(attributes, i) ==
    IF \E k \in 1..Len(attributes) : attribute_has_ident(attributes[k], i)
    THEN CHOOSE k \in 1..Len(attributes) :
            /\ attribute_has_ident(attributes[k], i)
            /\ \A j \in (k + 1)..Len(attributes) : ~attribute_has_ident(attributes[j], i)
    ELSE 0

\* attributes.iter().enumerate().find(|(_, a)| attribute_has_ident(a, &ident)):
\* the index of the first match, 0 for None.
find(attributes, i) ==
    IF \E k \in 1..Len(attributes) : attribute_has_ident(attributes[k], i)
    THEN CHOOSE k \in 1..Len(attributes) :
            /\ attribute_has_ident(attributes[k], i)
            /\ \A j \in 1..(k - 1) : ~attribute_has_ident(attributes[j], i)
    ELSE 0

\* attributes.split_off(index + 1)-like slip: drops the element and all before it.
RECURSIVE remove_through(_, _)
remove_through(attributes, k) ==
    IF k = 0 THEN attributes ELSE remove_through(Tail(attributes), k - 1)

\* Vec::remove(index): the vector without that element, the rest shifted left.
remove(attributes, k) ==
    SubSeq(attributes, 1, k - 1) \o SubSeq(attributes, k + 1, Len(attributes))

\* -------------------------------------------------- proc_macro_attribute2
\* syn::Type, as far as the check looks: its variant and, for a path (or the
\* path under a reference), the segments.
Types ==
    { [kind |-> "Path",      segs |-> <<"AttributeArgs">>],
      [kind |-> "Path",      segs |-> <<"syn", "AttributeArgs">>],
      [kind |-> "Path",      segs |-> <<"TokenStream2">>],
      [kind |-> "Path",      segs |-> <<"AttributeArgs", "TokenStream2">>],
      [kind |-> "Reference", segs |-> <<"AttributeArgs">>],
      [kind |-> "Reference", segs |-> <<"TokenStream2">>] }

\* syn::FnArg: a self receiver or a typed parameter.
FnArgs == {[arg |-> "Receiver"]} \cup {[arg |-> "Typed", ty |-> t] : t \in Types}

\* syn::ReturnType: none written, or `-> ty`.
ReturnTypes == {[ret |-> "Default"]} \cup {[ret |-> "Type", ty |-> t] : t \in Types}

FnIdents == {"f", "g"}

ItemFns ==
    [ident : FnIdents, inputs : SeqsUpTo(FnArgs, MaxParams),
     output : ReturnTypes, block : Fns]

\* segments.first() compared instead of segments.last().
type_first_segment_is(ty, expected_type_name) ==
    /\ ty.kind = "Path"
    /\ ty.segs[1] = expected_type_name

\* Type::Path(p) => p.path.segments.last() ... == expected ; _ => false
type_last_segment_is(ty, expected_type_name) ==
    /\ ty.kind = "Path"
    /\ ty.segs[Len(ty.segs)] = expected_type_name

argument_of_expected_type(input, expected_type_name) ==
    /\ input.arg = "Typed"
    /\ type_last_segment_is(input.ty, expected_type_name)

\* The return type left unchecked.
output_unchecked(output) == TRUE

output_of_expected_type(output) ==
    /\ output.ret = "Type"
    /\ type_last_segment_is(output.ty, "TokenStream2")

\* The parameter count the signature must have.
ExpectedParams == 2

\* The code quote! builds without the parameters of the function.
quote_without_params(f) ==
    [ entry |-> [name |-> f.ident,
                 attribute |-> "proc_macro_attribute",
                 callee |-> <<"implementation", f.ident>>],
      implementation |-> [name |-> f.ident, inputs |-> <<>>,
                          output |-> f.output, block |-> f.block] ]

\* The code quote! builds (lines 18-39): the entry point, and the module
\* `implementation` with the function itself.
quote(f) ==
    [ entry |-> [name |-> f.ident,
                 attribute |-> "proc_macro_attribute",
                 callee |-> <<"implementation", f.ident>>],
      implementation |-> [name |-> f.ident, inputs |-> f.inputs,
                          output |-> f.output, block |-> f.block] ]

\* TokenStream values of the two token APIs; .into() converts between them.
TokenStream(ts) == [api |-> "proc_macro", tokens |-> ts]

TokenStream2(ts) == [api |-> "proc_macro2", tokens |-> ts]

into(stream) ==
    IF stream.api = "proc_macro" THEN TokenStream2(stream.tokens)
    ELSE TokenStream(stream.tokens)

\* The inputs the emitted functions are called with.
AttributeInputs == {<<>>, <<"x", ",", "y">>, <<"y", ",">>, <<"+">>}

ItemInputs == {<<"struct", "S", "{", "}">>, <<"fn", "f", "(", ")", "{", "}">>}

ArgInputs == {<<>>, <<"x", "y">>, <<"y">>}

\* The body of `name` in the emitted module `implementation`.
Resolve(code, path) ==
    IF path[1] = "implementation" /\ path[2] = code.implementation.name
    THEN code.implementation.block
    ELSE "unresolved"

\* ------------------------------------------------------------------ state
VARIABLES
    pc,                 \* where the run of the macro stands
    ident,              \* $attr
    input_item,         \* $item as parsed (line 53)
    item,               \* the mutable `item`
    expected_ts,        \* quote!{ $($expected)* }
    func,               \* the function implementation::$attr resolves to
    attribute,          \* the attribute taken off the item
    attr_args,          \* the AttributeArgs made of it
    calls,              \* the calls of $attr made: <<[args, item]>>
    implementation_ts,  \* what $attr returned
    panic,              \* the panic message, "" for none
    ipc,                \* where the expansion of proc_macro_attribute2 stands
    item_func,          \* the ItemFn given to implement
    inspected,          \* the types of the signature looked at
    emitted,            \* the code implement returned
    entry_call,         \* the last call of the emitted entry point
    direct_call         \* the last call of the emitted implementation::f

avars == <<pc, ident, input_item, item, expected_ts, func, attribute,
           attr_args, calls, implementation_ts, panic>>

ivars == <<ipc, item_func, inspected, emitted, entry_call, direct_call>>

vars == <<pc, ident, input_item, item, expected_ts, func, attribute,
          attr_args, calls, implementation_ts, panic,
          ipc, item_func, inspected, emitted, entry_call, direct_call>>

NoCode == [name |-> "none"]

NoCall == [made |-> FALSE]

NoItemFn == [ident |-> "none"]

IdleImpl ==
    /\ ipc = "idle"
    /\ item_func = NoItemFn
    /\ inspected = {}
    /\ emitted = NoCode
    /\ entry_call = NoCall
    /\ direct_call = NoCall

\* The macro's inputs parsed (lines 49-54).
Init ==
    /\ pc = "extract"
    /\ ident \in Idents
    /\ input_item \in Items
    /\ item = input_item
    /\ expected_ts \in Expecteds(input_item)
    /\ func \in Fns
    /\ attribute = NoAttribute
    /\ attr_args = <<>>
    /\ calls = <<>>
    /\ implementation_ts = <<>>
    /\ panic = ""
    /\ IdleImpl

\* "Extract the attribute to test from the item" (lines 56-90).
Extract ==
    /\ pc = "extract"
    /\ IF item.kind \notin AttrKinds
       THEN /\ panic' = "Could not extract attributes"
            /\ pc' = "panicked"
            /\ UNCHANGED <<item, attribute>>
       ELSE LET attribute_index == find(item.attrs, ident)
            IN  IF attribute_index = 0
                THEN /\ panic' = "Could not find expected attribute"
                     /\ pc' = "panicked"
                     /\ UNCHANGED <<item, attribute>>
                ELSE /\ attribute' = item.attrs[attribute_index]
                     /\ item' = [item EXCEPT !.attrs = remove(item.attrs, attribute_index)]
                     /\ pc' = "convert"
                     /\ UNCHANGED panic
    /\ UNCHANGED <<ident, input_item, expected_ts, func, attr_args, calls,
                   implementation_ts>>
    /\ UNCHANGED ivars

\* "Transform the attribute to AttributeArgs" (lines 92-98).
Convert ==
    /\ pc = "convert"
    /\ LET meta == parse_meta(attribute)
       IN  IF meta.tag = "Err"
           THEN /\ panic' = "called Result::unwrap() on an Err value"
                /\ pc' = "panicked"
                /\ UNCHANGED attr_args
           ELSE /\ attr_args' = to_attribute_args(meta)
                /\ pc' = "execute"
                /\ UNCHANGED panic
    /\ UNCHANGED <<ident, input_item, item, expected_ts, func, attribute, calls,
                   implementation_ts>>
    /\ UNCHANGED ivars

\* "Execute the attribute function" (lines 100-101).
Execute ==
    /\ pc = "execute"
    /\ calls' = Append(calls, [args |-> attr_args, item |-> ItemToTokens(item)])
    /\ implementation_ts' = Apply(func, attr_args, ItemToTokens(item))
    /\ pc' = "assert"
    /\ UNCHANGED <<ident, input_item, item, expected_ts, func, attribute,
                   attr_args, panic>>
    /\ UNCHANGED ivars

\* "Assert that both token streams are equal" (lines 103-107).
AssertEq ==
    /\ pc = "assert"
    /\ IF remove_whitespace(to_string(implementation_ts))
            = remove_whitespace(to_string(expected_ts))
       THEN /\ pc' = "passed"
            /\ UNCHANGED panic
       ELSE /\ pc' = "panicked"
            /\ panic' = "assertion failed: (left == right)"
    /\ UNCHANGED <<ident, input_item, item, expected_ts, func, attribute,
                   attr_args, calls, implementation_ts>>
    /\ UNCHANGED ivars

Next ==
    \/ Extract
    \/ Convert
    \/ Execute
    \/ AssertEq

Spec == Init /\ [][Next]_vars

\* ------------------------------------------- expansion of the attribute
\* proc_macro_attribute2 has parsed its item as an ItemFn (line 9) and calls
\* implement.
InitImpl ==
    /\ pc = "idle"
    /\ ident = "a"
    /\ input_item = [kind |-> "Struct", generics |-> "none", attrs |-> <<>>]
    /\ item = input_item
    /\ expected_ts = <<>>
    /\ func = "identity"
    /\ attribute = NoAttribute
    /\ attr_args = <<>>
    /\ calls = <<>>
    /\ implementation_ts = <<>>
    /\ panic = ""
    /\ ipc = "check_len"
    /\ item_func \in ItemFns
    /\ inspected = {}
    /\ emitted = NoCode
    /\ entry_call = NoCall
    /\ direct_call = NoCall

\* signature_as_expected, lines 43-45, and the panic of implement on false.
CheckLen ==
    /\ ipc = "check_len"
    /\ IF Len(item_func.inputs) # ExpectedParams
       THEN ipc' = "panicked"
       ELSE ipc' = "check_types"
    /\ UNCHANGED <<item_func, inspected, emitted, entry_call, direct_call>>
    /\ UNCHANGED avars

\* signature_as_expected, lines 47-50, and the panic of implement on false.
CheckTypes ==
    /\ ipc = "check_types"
    /\ LET first_param_ok == argument_of_expected_type(item_func.inputs[1], "AttributeArgs")
           second_param_ok == argument_of_expected_type(item_func.inputs[2], "TokenStream2")
           output_ok == output_of_expected_type(item_func.output)
       IN  /\ inspected' = {"first_param", "second_param", "output"}
           /\ IF first_param_ok /\ second_param_ok /\ output_ok
              THEN ipc' = "quote"
              ELSE ipc' = "panicked"
    /\ UNCHANGED <<item_func, emitted, entry_call, direct_call>>
    /\ UNCHANGED avars

\* implement, lines 18-39.
Quote ==
    /\ ipc = "quote"
    /\ emitted' = quote(item_func)
    /\ ipc' = "emitted"
    /\ UNCHANGED <<item_func, inspected, entry_call, direct_call>>
    /\ UNCHANGED avars

\* The emitted entry point, called by the compiler (lines 25-30).
\* parse_macro_input! returns the compile error when the attribute's tokens
\* are no AttributeArgs.
CallEntryPoint ==
    /\ ipc = "emitted"
    /\ \E attributes \in AttributeInputs, it \in ItemInputs :
         LET parsed == ParseNested(attributes)
             body == Resolve(emitted, emitted.entry.callee)
         IN  entry_call' =
               IF ~parsed.ok
               THEN [made |-> TRUE, attributes |-> attributes, item |-> TokenStream(it),
                     called_implementation |-> FALSE,
                     result |-> TokenStream(<<"compile_error">>)]
               ELSE [made |-> TRUE, attributes |-> attributes, item |-> TokenStream(it),
                     called_implementation |-> TRUE,
                     result |-> into(TokenStream2(
                         Apply(body, parsed.nested, into(TokenStream(it)).tokens)))]
    /\ UNCHANGED <<ipc, item_func, inspected, emitted, direct_call>>
    /\ UNCHANGED avars

\* The emitted implementation::f, called directly (lines 32-38).
CallImplementation ==
    /\ ipc = "emitted"
    /\ \E args \in ArgInputs, it \in ItemInputs :
         direct_call' =
           [made |-> TRUE, args |-> args, item |-> TokenStream2(it),
            result |-> TokenStream2(
                Apply(emitted.implementation.block, args, it))]
    /\ UNCHANGED <<ipc, item_func, inspected, emitted, entry_call>>
    /\ UNCHANGED avars

NextImpl ==
    \/ CheckLen
    \/ CheckTypes
    \/ Quote
    \/ CallEntryPoint
    \/ CallImplementation

SpecImpl == InitImpl /\ [][NextImpl]_vars

\* ================================================================ claims
\* The vocabulary of the claims, stated on the inputs of a run.
Named(a, name) == a.path[Len(a.path)] = name

HasNamed(as, name) == \E k \in 1..Len(as) : Named(as[k], name)

FirstNamed(as, name) ==
    CHOOSE k \in 1..Len(as) :
        Named(as[k], name) /\ \A j \in 1..(k - 1) : ~Named(as[j], name)

NonWhitespace(s) == SelectSeq(s, LAMBDA c : c \notin {" ", "\t", "\n"})

CommaFree(ts) == SelectSeq(ts, LAMBDA t : t # ",")

\* name(a1, ..., an), each ai a name or literal, a trailing comma allowed.
IsMetaList(ts) ==
    /\ Len(ts) >= 2
    /\ ts[1] = "(" /\ ts[Len(ts)] = ")"
    /\ \A k \in 2..(Len(ts) - 1) :
         IF k % 2 = 0 THEN ts[k] \in {"x", "y", "1"} ELSE ts[k] = ","

IsMetaPath(ts) == ts = <<>>

IsMetaNameValue(ts) == Len(ts) = 2 /\ ts[1] = "=" /\ ts[2] \in {"x", "y", "1"}

Extracted == attribute # NoAttribute

Finished == pc \in {"passed", "panicked"}

\* C1 (as claimed): for every declaration carrying an annotation named $attr
\* and the identity as rewrite function, with `expected` the declaration
\* written without that annotation, the macro does not panic.
C1_AsClaimed ==
    ( /\ HasNamed(input_item.attrs, ident)
      /\ func = "identity"
      /\ expected_ts = SourceTokens(
             Without(input_item, FirstNamed(input_item.attrs, ident))) )
    => pc # "panicked"

\* C1 (amended): the same, for a declaration of one of the sixteen kinds
\* whose attributes the macro reaches, whose annotation parses as a meta, and
\* which syn prints with the tokens it was written with (no empty generics).
C1_IdentityPasses ==
    ( /\ HasNamed(input_item.attrs, ident)
      /\ func = "identity"
      /\ expected_ts = SourceTokens(
             Without(input_item, FirstNamed(input_item.attrs, ident)))
      /\ input_item.kind \in {"Const", "Enum", "ExternCrate", "Fn", "ForeignMod",
                              "Impl", "Macro", "Macro2", "Mod", "Static", "Struct",
                              "Trait", "TraitAlias", "Type", "Union", "Use"}
      /\ LET ts == input_item.attrs[FirstNamed(input_item.attrs, ident)].tokens
         IN  IsMetaPath(ts) \/ IsMetaList(ts) \/ IsMetaNameValue(ts)
      /\ input_item.generics # "empty" )
    => /\ pc # "panicked"
       /\ Finished => NonWhitespace(to_string(implementation_ts))
                        = NonWhitespace(to_string(expected_ts))

C1_Witness ==
    /\ pc = "passed"
    /\ func = "identity"
    /\ Len(input_item.attrs) = 2
    /\ Named(input_item.attrs[2], ident)
    /\ ~Named(input_item.attrs[1], ident)
    /\ expected_ts = SourceTokens(Without(input_item, 2))
    /\ input_item.generics # "empty"

\* C3 (as claimed): when no attribute of the item is named $attr, the macro
\* panics with "Could not find expected attribute", the rewrite function is
\* not called and the item's attributes are as they were.
C3_AsClaimed ==
    (~HasNamed(input_item.attrs, ident) /\ pc # "extract")
    => /\ panic = "Could not find expected attribute"
       /\ calls = <<>>
       /\ item = input_item

\* C3 (amended): the same for an item of one of the sixteen kinds whose
\* attributes the macro reaches; for any other item the macro panics with
\* "Could not extract attributes"; in both cases the rewrite function is not
\* called and the item is as it was.
C3_NotFoundPanics ==
    (~HasNamed(input_item.attrs, ident) /\ pc # "extract")
    => /\ pc = "panicked"
       /\ panic = IF input_item.kind = "Verbatim"
                  THEN "Could not extract attributes"
                  ELSE "Could not find expected attribute"
       /\ calls = <<>>
       /\ implementation_ts = <<>>
       /\ item = input_item

C3_Witness ==
    /\ panic = "Could not find expected attribute"
    /\ Len(input_item.attrs) = 2
    /\ input_item.attrs[1].path[1] = ident
    /\ calls = <<>>

C6_AsClaimed ==
    pc = "passed" => to_string(implementation_ts) = to_string(expected_ts)

C8_AsClaimed ==
    (Extracted /\ pc # "convert")
    => /\ panic # "called Result::unwrap() on an Err value"
       /\ attr_args = IF Len(attribute.tokens) > 0 /\ attribute.tokens[1] = "("
                      THEN CommaFree(SubSeq(attribute.tokens, 2,
                                            Len(attribute.tokens) - 1))
                      ELSE <<>>

\* C8 (amended): an annotation that parses as a meta becomes a1..an for the
\* list form and the empty list for a bare path or a name = value form, and
\* these are the arguments the rewrite function is called with; an
\* annotation that does not parse as a meta makes the macro panic (unwrap)
\* without calling the rewrite function.
C8_ArgsOfMeta ==
    (Extracted /\ pc # "convert")
    => LET ts == attribute.tokens
       IN  IF IsMetaList(ts)
           THEN /\ attr_args = CommaFree(SubSeq(ts, 2, Len(ts) - 1))
                /\ \A c \in 1..Len(calls) : calls[c].args = attr_args
                /\ pc \in {"execute", "assert"} \/ Finished
                /\ panic # "called Result::unwrap() on an Err value"
           ELSE IF IsMetaPath(ts) \/ IsMetaNameValue(ts)
           THEN /\ attr_args = <<>>
                /\ \A c \in 1..Len(calls) : calls[c].args = <<>>
                /\ panic # "called Result::unwrap() on an Err value"
           ELSE /\ pc = "panicked"
                /\ panic = "called Result::unwrap() on an Err value"
                /\ calls = <<>>

C8_Witness ==
    /\ calls # <<>>
    /\ attribute.tokens = <<"(", "x", ",", "y", ")">>
    /\ calls[1].args = <<"x", "y">>

\* C9: an attribute is matched exactly when the last segment of its path is
\* $attr: the attribute taken has $attr as last segment whatever its leading
\* segments, every attribute before it has another last segment, and none is
\* taken when no last segment is $attr.
C9_MatchesLastSegment ==
    (pc # "extract" /\ input_item.kind # "Verbatim")
    => /\ Extracted <=>
            \E k \in 1..Len(input_item.attrs) :
               input_item.attrs[k].path[Len(input_item.attrs[k].path)] = ident
       /\ Extracted => attribute.path[Len(attribute.path)] = ident
       /\ \A k \in 1..Len(item.attrs) :
             item.attrs[k].path[Len(item.attrs[k].path)] = ident
             => \E j \in 1..Len(input_item.attrs) :
                   /\ input_item.attrs[j].path[Len(input_item.attrs[j].path)] = ident
                   /\ j <= k
       /\ ~Extracted => panic = "Could not find expected attribute"

C9_Witness ==
    /\ Extracted
    /\ ident = "a"
    /\ attribute.path = <<"m", "a">>
    /\ Len(item.attrs) = 1
    /\ item.attrs[1].path = <<"a", "m">>
    /\ input_item.attrs[1].path = <<"a", "m">>

\* --- claims on proc_macro_attribute2
IsPathNamed(ty, name) == ty.kind = "Path" /\ ty.segs[Len(ty.segs)] = name

SignatureMatches(f) ==
    /\ Len(f.inputs) = 2
    /\ f.inputs[1].arg = "Typed" /\ IsPathNamed(f.inputs[1].ty, "AttributeArgs")
    /\ f.inputs[2].arg = "Typed" /\ IsPathNamed(f.inputs[2].ty, "TokenStream2")
    /\ f.output.ret = "Type" /\ IsPathNamed(f.output.ty, "TokenStream2")

Checked == ipc \in {"panicked", "quote", "emitted"}

\* C2: implement panics if and only if the signature is not (AttributeArgs,
\* TokenStream2) -> TokenStream2; a panic leaves no output code, and a
\* matching signature is never met with a panic.
C2_PanicsIffSignatureMismatch ==
    /\ Checked => (ipc = "panicked" <=> ~SignatureMatches(item_func))
    /\ ipc = "panicked" => emitted = NoCode
    /\ emitted # NoCode => SignatureMatches(item_func)
    /\ SignatureMatches(item_func) => ipc # "panicked"

C2_Witness ==
    /\ ipc = "panicked"
    /\ Len(item_func.inputs) = 2
    /\ item_func.inputs[1] = [arg |-> "Typed",
                              ty |-> [kind |-> "Path", segs |-> <<"AttributeArgs">>]]
    /\ item_func.inputs[2] = [arg |-> "Typed",
                              ty |-> [kind |-> "Path", segs |-> <<"TokenStream2">>]]
    /\ item_func.output = [ret |-> "Default"]

\* C10: acceptance depends on the parameter count and the last path segment
\* of each type only: path types with the expected last segment are accepted
\* whatever their leading segments; a receiver, a non-path type or a missing
\* return type is rejected; a count other than 2 is rejected with no type
\* looked at.
C10_DecidedByCountAndLastSegment ==
    Checked =>
      LET ins == item_func.inputs
          out == item_func.output
          rejected == ipc = "panicked"
      IN  /\ Len(ins) # 2 => (rejected /\ inspected = {})
          /\ (\E k \in 1..Len(ins) : ins[k].arg = "Receiver") => rejected
          /\ (\E k \in 1..Len(ins) : ins[k].arg = "Typed" /\ ins[k].ty.kind # "Path")
               => rejected
          /\ out.ret = "Default" => rejected
          /\ (out.ret = "Type" /\ out.ty.kind # "Path") => rejected
          /\ ( /\ Len(ins) = 2
               /\ \A k \in 1..2 : ins[k].arg = "Typed" /\ ins[k].ty.kind = "Path"
               /\ out.ret = "Type" /\ out.ty.kind = "Path" )
             => ( ~rejected <=>
                    /\ ins[1].ty.segs[Len(ins[1].ty.segs)] = "AttributeArgs"
                    /\ ins[2].ty.segs[Len(ins[2].ty.segs)] = "TokenStream2"
                    /\ out.ty.segs[Len(out.ty.segs)] = "TokenStream2" )

C10_Witness ==
    /\ ipc = "emitted"
    /\ item_func.inputs[1].ty.segs = <<"syn", "AttributeArgs">>
    /\ item_func.inputs[2].ty.segs = <<"AttributeArgs", "TokenStream2">>
    /\ item_func.output.ty.segs = <<"AttributeArgs", "TokenStream2">>

\* C5: for an accepted function f the emitted code is an entry point f that
\* calls implementation::f, and implementation::f with f's parameters, return
\* type and body; the entry point returns what implementation::f returns for
\* the parsed attributes and the item, converted back, so that a call of each
\* on the same inputs gives the same tokens.
C5_EntryPointEqualsImplementation ==
    ipc = "emitted" =>
      /\ emitted.entry.name = item_func.ident
      /\ emitted.entry.callee = <<"implementation", item_func.ident>>
      /\ emitted.implementation.name = item_func.ident
      /\ emitted.implementation.inputs = item_func.inputs
      /\ emitted.implementation.output = item_func.output
      /\ emitted.implementation.block = item_func.block
      /\ direct_call.made =>
           /\ direct_call.result.api = "proc_macro2"
           /\ direct_call.result.tokens =
                IF item_func.block = "identity" THEN direct_call.item.tokens
                ELSE direct_call.item.tokens \o direct_call.args
      /\ (entry_call.made /\ entry_call.called_implementation) =>
           /\ entry_call.result.api = "proc_macro"
           /\ entry_call.result.tokens =
                IF item_func.block = "identity" THEN entry_call.item.tokens
                ELSE entry_call.item.tokens \o CommaFree(entry_call.attributes)
      /\ ( /\ entry_call.made /\ entry_call.called_implementation
           /\ direct_call.made
           /\ CommaFree(entry_call.attributes) = direct_call.args
           /\ entry_call.item.tokens = direct_call.item.tokens )
         => entry_call.result.tokens = direct_call.result.tokens

C5_Witness ==
    /\ ipc = "emitted"
    /\ item_func.block = "with_args"
    /\ entry_call.made /\ direct_call.made
    /\ entry_call.attributes = <<"x", ",", "y">>
    /\ direct_call.args = <<"x", "y">>
    /\ entry_call.item.tokens = direct_call.item.tokens
    /\ entry_call.result.tokens = direct_call.result.tokens

====
